---- MODULE Spec2Model ----
(***************************************************************************)
(* FaceSwap API (src/main.py, src/preload_images.py).                      *)
(*                                                                         *)
(* The three MongoDB collections, the request handlers of main.py that     *)
(* read and write them, the provider adapter call_huggingface_space, and   *)
(* the two preload_target_images routines.  Every `await` of a handler is  *)
(* a point where other handlers run, so a handler with several awaits is   *)
(* one action per await-delimited step.                                    *)
(*                                                                         *)
(* Strings are sequences of tokens (the empty string is << >>), byte       *)
(* payloads are sequences of small integers, Python's None is the record   *)
(* None below.                                                             *)
(***************************************************************************)
EXTENDS Integers, Sequences, FiniteSets, TLC

VARIABLES
    source_images_collection,   \* set of documents of Source_Images
    target_images_collection,   \* set of documents of Target_Images
    results_collection,         \* set of documents of Results
    nextId,                     \* per collection, the next ObjectId's number
    now,                        \* datetime.utcnow()
    swap,                       \* one perform_face_swap request per SwapProcs
    read,                       \* the last download_result / get_target_image
    preload                     \* one preload_target_images run per PreloadProcs

vars == <<source_images_collection, target_images_collection,
          results_collection, nextId, now, swap, read, preload>>

----------------------------------------------------------------------------
(* Bounds of the model *)

MaxUploads == 2      \* documents the two upload endpoints may add in all
MaxTime == 1         \* the clock runs from 0 to MaxTime
ScriptLen == 3       \* answers the provider has ready for one request

SwapProcs == {"req1", "req2"}          \* two requests, served concurrently
PreloadProcs == {"startup", "script"}  \* main.py's hook, preload_images.py

----------------------------------------------------------------------------
(* Python values *)

None == [none |-> TRUE, val |-> << >>]
Some(x) == [none |-> FALSE, val |-> x]

\* Python truthiness of an Optional[str]: None and "" are both false.
Truthy(s) == ~s.none /\ s.val # << >>

\* An ObjectId is the collection that generated it and a number; no two
\* inserts get the same one.  MissingId is a well-formed ObjectId that names
\* no document, BadId a string that is no ObjectId at all (bson raises
\* InvalidId on it), NoId the absence of an id.
ObjectId(coll_name, n) == <<coll_name, n>>
MissingId == <<"nowhere", 0>>
BadId == <<"not-hex", 0>>
NoId == <<"", 0>>

ObjectIdValid(id) == id # BadId

Ids(coll) == {d._id : d \in coll}

\* collection.find_one({"_id": id})
FindOneById(coll, id) ==
    IF id \in Ids(coll) THEN Some(CHOOSE d \in coll : d._id = id) ELSE None

\* collection.find_one({"filename": filename})
FindOneByFilename(coll, filename) ==
    IF \E d \in coll : d.filename = filename
    THEN Some(CHOOSE d \in coll : d.filename = filename) ELSE None

\* collection.insert_one(doc): the driver gives the document a fresh _id.
InsertOne(coll, doc, id) == coll \cup {[doc EXCEPT !._id = id]}

\* insert_one as an upsert on the (source, target) pair of a result.
InsertOne_upsert(coll, doc, id) ==
    {d \in coll : \/ d.source_image_id # doc.source_image_id
                  \/ d.target_image_id # doc.target_image_id}
        \cup {[doc EXCEPT !._id = id]}

\* results_collection.insert_one(result_doc), line 233.
InsertResult(coll, doc, id) == InsertOne(coll, doc, id)

\* io.BytesIO(initial_bytes): None gives an empty buffer.
BytesIO(data) == IF data.none THEN << >> ELSE data.val

----------------------------------------------------------------------------
(* Exceptions and responses *)

HTTPException(status_code, detail) ==
    [type |-> "HTTPException", status_code |-> status_code, detail |-> detail]
Exception(msg) ==
    [type |-> "Exception", status_code |-> 0, detail |-> msg]

StatusText(code) ==
    CASE code = 400 -> "400" [] code = 404 -> "404" [] code = 500 -> "500"
      [] OTHER -> "0"

\* str(e): Starlette's HTTPException prints "<status_code>: <detail>", any
\* other exception prints its message.
Str(e) ==
    IF e.type = "HTTPException"
    THEN <<StatusText(e.status_code), ": ">> \o e.detail
    ELSE e.detail

\* `except Exception as e: raise HTTPException(status_code=500, detail=str(e))`
\* closes every handler; it also catches the HTTPExceptions raised in the
\* handler's own body.
Rewrap(e) == HTTPException(500, Str(e))

\* The response FastAPI sends for an HTTPException that leaves the handler.
ErrorResponse(e) ==
    [status |-> e.status_code, detail |-> e.detail, result_id |-> NoId,
     body |-> << >>, media_type |-> << >>]

StoreError == Exception(<<"ServerSelectionTimeoutError">>)
InvalidId == Exception(<<"not a valid ObjectId">>)

NoResponse ==
    [status |-> 0, detail |-> << >>, result_id |-> NoId,
     body |-> << >>, media_type |-> << >>]

----------------------------------------------------------------------------
(* Uploads *)

\* The files a client uploads: a JPEG and a file that is no image.
UploadFiles ==
    { [filename |-> [stem |-> "a", ext |-> "jpg"], contents |-> <<1, 5>>,
       content_type |-> <<"image/jpeg">>],
      [filename |-> [stem |-> "x", ext |-> "txt"], contents |-> <<9>>,
       content_type |-> <<"text/plain">>] }

\* Image.open(io.BytesIO(contents)) succeeds.
ImageOpens(contents) == contents # << >> /\ Head(contents) = 1

ImageDoc(filename, contents, content_type, at) ==
    [_id |-> NoId, filename |-> filename, image_data |-> Some(contents),
     content_type |-> content_type, uploaded_at |-> at]

----------------------------------------------------------------------------
(* The provider and the adapter *)

\* What the Hugging Face Space does with one POST:
\*   ok          status 200 with the swapped image as the body
\*   empty       status 200 with an empty body
\*   rejected    a status other than 200 with an error text
\*   unavailable the connection cannot be made (aiohttp raises a
\*               ClientConnectorError, which has a message)
\*   timeout     no answer before the session's total timeout (aiohttp raises
\*               asyncio.TimeoutError(), whose str() is "")
Outcomes == {"ok", "empty", "rejected", "unavailable", "timeout"}
Transient == {"unavailable", "timeout"}

\* The answers the provider has ready for the successive POSTs of one request:
\* its trouble, while it lasts, is of one kind, and once it has answered it
\* keeps to that answer.
Scripts ==
    {s \in [1..ScriptLen -> Outcomes] :
        \A i \in 1..(ScriptLen - 1) :
            /\ s[i] \notin Transient => s[i + 1] = s[i]
            /\ s[i + 1] \in Transient => s[i] = s[i + 1]}

\* The image the provider computes from the two inputs.
Swapped(src_img_data, tgt_img_data) == <<7>> \o src_img_data \o tgt_img_data

\* The same without the test of response.status: the body of any answer is
\* taken for the image.
Attempt_nostatus(outcome, src_img_data, tgt_img_data) ==
    CASE outcome = "ok" ->
           [result_data |-> Some(Swapped(src_img_data, tgt_img_data)),
            error |-> None]
      [] outcome \in {"empty", "rejected"} ->
           [result_data |-> Some(<< >>), error |-> None]
      [] outcome = "unavailable" ->
           [result_data |-> None, error |-> Some(<<"Cannot connect to host">>)]
      [] OTHER ->
           [result_data |-> None, error |-> Some(<< >>)]

\* One `session.post` and what lines 74-83 make of it: (result_data, error).
Attempt(outcome, src_img_data, tgt_img_data) ==
    CASE outcome = "ok" ->
           [result_data |-> Some(Swapped(src_img_data, tgt_img_data)),
            error |-> None]
      [] outcome = "empty" ->
           [result_data |-> Some(<< >>), error |-> None]
      [] outcome = "rejected" ->
           [result_data |-> None,
            error |-> Some(Str(Exception(
                         <<"Hugging Face API error: ", "bad input">>)))]
      [] outcome = "unavailable" ->
           [result_data |-> None,
            error |-> Some(Str(Exception(<<"Cannot connect to host">>)))]
      [] OTHER ->
           [result_data |-> None, error |-> Some(Str(Exception(<< >>)))]

\* call_huggingface_space with a retry loop around the POST: it posts again
\* after a transient failure, up to ScriptLen times.
RECURSIVE RetryingAdapter(_, _, _, _)
RetryingAdapter(src_img_data, tgt_img_data, script, n) ==
    LET a == Attempt(script[n], src_img_data, tgt_img_data) IN
    IF script[n] \in Transient /\ n < Len(script)
    THEN RetryingAdapter(src_img_data, tgt_img_data, script, n + 1)
    ELSE [result_data |-> a.result_data, error |-> a.error, calls |-> n]

call_huggingface_space_retry(src_img_data, tgt_img_data, script) ==
    RetryingAdapter(src_img_data, tgt_img_data, script, 1)

\* call_huggingface_space: one POST, whatever it answers.
call_huggingface_space(src_img_data, tgt_img_data, script) ==
    LET a == Attempt(script[1], src_img_data, tgt_img_data) IN
    [result_data |-> a.result_data, error |-> a.error, calls |-> 1]

----------------------------------------------------------------------------
(* perform_face_swap *)

ResultDoc(result_data, source_image_id, target_image_id, at) ==
    [_id |-> NoId,
     filename |-> <<"faceswap_result_", at, ".png">>,
     image_data |-> result_data,
     content_type |-> <<"image/png">>,
     source_image_id |-> source_image_id,
     target_image_id |-> target_image_id,
     created_at |-> at]

NoDoc == ResultDoc(None, NoId, NoId, 0)

IdleSwap ==
    [pc |-> "idle", source_image_id |-> NoId, target_image_id |-> NoId,
     source_doc |-> None, target_doc |-> None, attempts |-> << >>,
     calls |-> 0, result_data |-> None, error |-> None, result_doc |-> NoDoc,
     response |-> NoResponse, inserted |-> {}, cause |-> "none"]

\* The handler ends with the exception e; cause records why (not program
\* state).
Fails(r, e, cause) ==
    swap' = [swap EXCEPT ![r].pc = "done",
                         ![r].response = ErrorResponse(Rewrap(e)),
                         ![r].cause = cause]

SuccessResponse(inserted_id) ==
    [status |-> 200, detail |-> <<"Face swap completed successfully">>,
     result_id |-> inserted_id, body |-> << >>, media_type |-> << >>]

\* Lines 233-238 with the insert's exception swallowed.
PersistResponse_swallow(ok, inserted_id) == SuccessResponse(inserted_id)

\* Lines 233-241: the response once insert_one has returned or raised.
PersistResponse(ok, inserted_id) ==
    IF ok THEN SuccessResponse(inserted_id)
    ELSE ErrorResponse(Rewrap(StoreError))

\* Line 206: the request arrives and the source document is looked up.
SubmitSwap(r, src, tgt, storeOk) ==
    /\ swap[r].pc = "idle"
    /\ LET s == [swap[r] EXCEPT !.source_image_id = src,
                                !.target_image_id = tgt] IN
       IF ~ObjectIdValid(src)
       THEN swap' = [swap EXCEPT ![r] =
                [s EXCEPT !.pc = "done",
                          !.response = ErrorResponse(Rewrap(InvalidId)),
                          !.cause = "InvalidId"]]
       ELSE IF ~storeOk
       THEN swap' = [swap EXCEPT ![r] =
                [s EXCEPT !.pc = "done",
                          !.response = ErrorResponse(Rewrap(StoreError)),
                          !.cause = "StoreRead"]]
       ELSE swap' = [swap EXCEPT ![r] =
                [s EXCEPT !.pc = "find_target",
                          !.source_doc =
                              FindOneById(source_images_collection, src)]]
    /\ UNCHANGED <<source_images_collection, target_images_collection,
                   results_collection, nextId, now, read, preload>>

\* Lines 207-212: the target document is looked up, then both are tested.
FindTarget(r, storeOk) ==
    /\ swap[r].pc = "find_target"
    /\ LET target_doc ==
               FindOneById(target_images_collection, swap[r].target_image_id)
       IN
       IF ~ObjectIdValid(swap[r].target_image_id)
       THEN Fails(r, InvalidId, "InvalidId")
       ELSE IF ~storeOk
       THEN Fails(r, StoreError, "StoreRead")
       ELSE IF swap[r].source_doc.none
       THEN swap' = [swap EXCEPT ![r].pc = "done",
                                 ![r].target_doc = target_doc,
                                 ![r].response = ErrorResponse(Rewrap(
                                     HTTPException(404,
                                         <<"Source image not found">>))),
                                 ![r].cause = "SourceMissing"]
       ELSE IF target_doc.none
       THEN Fails(r, HTTPException(404, <<"Target image not found">>),
                  "TargetMissing")
       ELSE swap' = [swap EXCEPT ![r].pc = "invoking",
                                 ![r].target_doc = target_doc]
    /\ UNCHANGED <<source_images_collection, target_images_collection,
                   results_collection, nextId, now, read, preload>>

\* Lines 215-231: the adapter is awaited, its error tested, the result
\* document built.  attempts records the answers the adapter's POSTs got and
\* cause why the request failed (neither is program state).
InvokeResult(s, script, at) ==
    LET a == call_huggingface_space(s.source_doc.val.image_data.val,
                                    s.target_doc.val.image_data.val, script)
        t == [s EXCEPT !.attempts = SubSeq(script, 1, a.calls),
                       !.calls = @ + a.calls,
                       !.result_data = a.result_data,
                       !.error = a.error]
    IN
    IF Truthy(a.error)
    THEN [t EXCEPT !.pc = "done",
                   !.response = ErrorResponse(Rewrap(
                       HTTPException(500, a.error.val))),
                   !.cause = script[a.calls]]
    ELSE [t EXCEPT !.pc = "persisting",
                   !.result_doc = ResultDoc(a.result_data, s.source_image_id,
                                            s.target_image_id, at)]

Invoke(r, script) ==
    /\ swap[r].pc = "invoking"
    /\ swap' = [swap EXCEPT ![r] = InvokeResult(swap[r], script, now)]
    /\ UNCHANGED <<source_images_collection, target_images_collection,
                   results_collection, nextId, now, read, preload>>

\* Lines 233-238: the result document is inserted and its id returned.
Persist(r, storeOk) ==
    /\ swap[r].pc = "persisting"
    /\ IF storeOk
       THEN LET id == ObjectId("Results", nextId.Results) IN
            /\ results_collection' =
                   InsertResult(results_collection, swap[r].result_doc, id)
            /\ nextId' = [nextId EXCEPT !.Results = @ + 1]
            /\ swap' = [swap EXCEPT ![r].pc = "done",
                                    ![r].response = PersistResponse(TRUE, id),
                                    ![r].inserted = @ \cup {id}]
       ELSE /\ swap' = [swap EXCEPT ![r].pc = "done",
                                    ![r].response =
                                        PersistResponse(FALSE, NoId),
                                    ![r].cause = "StoreWrite"]
            /\ UNCHANGED <<results_collection, nextId>>
    /\ UNCHANGED <<source_images_collection, target_images_collection,
                   now, read, preload>>

----------------------------------------------------------------------------
(* Uploads, reads, the clock *)

\* upload_source_image (lines 93-123) for a file that is an image or not.
UploadSource(file, storeOk) ==
    /\ Cardinality(source_images_collection)
         + Cardinality(target_images_collection) < MaxUploads
    /\ IF ImageOpens(file.contents) /\ storeOk
       THEN /\ source_images_collection' =
                   InsertOne(source_images_collection,
                             ImageDoc(file.filename, file.contents,
                                      file.content_type, now),
                             ObjectId("Source_Images", nextId.Source_Images))
            /\ nextId' = [nextId EXCEPT !.Source_Images = @ + 1]
       ELSE UNCHANGED <<source_images_collection, nextId>>
    /\ UNCHANGED <<target_images_collection, results_collection, now, swap,
                   read, preload>>

\* upload_target_image (lines 166-196).
UploadTarget(file, storeOk) ==
    /\ Cardinality(source_images_collection)
         + Cardinality(target_images_collection) < MaxUploads
    /\ IF ImageOpens(file.contents) /\ storeOk
       THEN /\ target_images_collection' =
                   InsertOne(target_images_collection,
                             ImageDoc(file.filename, file.contents,
                                      file.content_type, now),
                             ObjectId("Target_Images", nextId.Target_Images))
            /\ nextId' = [nextId EXCEPT !.Target_Images = @ + 1]
       ELSE UNCHANGED <<target_images_collection, nextId>>
    /\ UNCHANGED <<source_images_collection, results_collection, now, swap,
                   read, preload>>

\* Lines 250-260 and 152-162: find the document, stream it back; the closing
\* `except Exception` catches the 404 raised for a missing document too.
ReadResponse(coll, id, storeOk, what) ==
    LET doc == FindOneById(coll, id) IN
    IF ~ObjectIdValid(id) THEN ErrorResponse(Rewrap(InvalidId))
    ELSE IF ~storeOk THEN ErrorResponse(Rewrap(StoreError))
    ELSE IF doc.none
    THEN ErrorResponse(Rewrap(HTTPException(404, <<what, " not found">>)))
    ELSE [status |-> 200, detail |-> << >>, result_id |-> NoId,
          body |-> BytesIO(doc.val.image_data),
          media_type |-> doc.val.content_type]

\* download_result (lines 245-260).
DownloadResult(result_id, storeOk) ==
    /\ read' = [op |-> "download_result", id |-> result_id,
                storeOk |-> storeOk,
                absent |-> result_id \notin Ids(results_collection),
                response |-> ReadResponse(results_collection, result_id,
                                          storeOk, "Result")]
    /\ UNCHANGED <<source_images_collection, target_images_collection,
                   results_collection, nextId, now, swap, preload>>

\* get_target_image (lines 147-162).
GetTargetImage(image_id, storeOk) ==
    /\ read' = [op |-> "get_target_image", id |-> image_id,
                storeOk |-> storeOk,
                absent |-> image_id \notin Ids(target_images_collection),
                response |-> ReadResponse(target_images_collection, image_id,
                                          storeOk, "Image")]
    /\ UNCHANGED <<source_images_collection, target_images_collection,
                   results_collection, nextId, now, swap, preload>>

\* Time passes.
Tick ==
    /\ now < MaxTime
    /\ now' = now + 1
    /\ UNCHANGED <<source_images_collection, target_images_collection,
                   results_collection, nextId, swap, read, preload>>

----------------------------------------------------------------------------
(* preload_target_images *)

\* os.listdir("Target_Images")
TargetImagesDir ==
    << [stem |-> "face", ext |-> "PNG"],
       [stem |-> "notes", ext |-> "txt"],
       [stem |-> "scene", ext |-> "jpg"] >>

\* filename.split('.')[-1].lower()
Lower(ext) ==
    CASE ext = "PNG" -> "png" [] ext = "JPG" -> "jpg" [] ext = "JPEG" -> "jpeg"
      [] OTHER -> ext

\* filename.lower().endswith(('.png', '.jpg', '.jpeg'))
IsImageName(filename) == Lower(filename.ext) \in {"png", "jpg", "jpeg"}

\* The file's bytes.
FileData(filename) == IF filename.stem = "face" THEN <<1, 2>> ELSE <<1, 3>>

\* The for loop runs on to the next image file without awaiting.
RECURSIVE NextImage(_)
NextImage(i) ==
    IF i > Len(TargetImagesDir) THEN i
    ELSE IF IsImageName(TargetImagesDir[i]) THEN i
    ELSE NextImage(i + 1)

IdlePreload == [pc |-> "start", i |-> 0, image_doc |-> ImageDoc(<< >>, << >>, << >>, 0)]

Advance(p, i) ==
    [preload EXCEPT ![p].i = NextImage(i),
                    ![p].pc = IF NextImage(i) > Len(TargetImagesDir)
                              THEN "done" ELSE "find"]

\* A store error ends the run: main.py's routine lets it propagate (the
\* startup fails), preload_images.py's catches and prints it.
PreloadError(p) ==
    [preload EXCEPT ![p].pc = IF p = "startup" THEN "crashed" ELSE "done"]

\* The run starts and walks to its first image file.
PreloadStart(p) ==
    /\ preload[p].pc = "start"
    /\ preload' = Advance(p, 1)
    /\ UNCHANGED <<source_images_collection, target_images_collection,
                   results_collection, nextId, now, swap, read>>

\* find_one returns: skip the file, or read it and build its document.
PreloadFind(p, storeOk) ==
    /\ preload[p].pc = "find"
    /\ LET filename == TargetImagesDir[preload[p].i]
           existing == FindOneByFilename(target_images_collection, filename)
       IN
       IF ~storeOk THEN preload' = PreloadError(p)
       ELSE IF ~existing.none THEN preload' = Advance(p, preload[p].i + 1)
       ELSE preload' =
              [preload EXCEPT ![p].pc = "insert",
                              ![p].image_doc =
                                  ImageDoc(filename, FileData(filename),
                                           <<"image/", Lower(filename.ext)>>,
                                           now)]
    /\ UNCHANGED <<source_images_collection, target_images_collection,
                   results_collection, nextId, now, swap, read>>

\* insert_one returns: the loop goes on.
PreloadInsert(p, storeOk) ==
    /\ preload[p].pc = "insert"
    /\ IF storeOk
       THEN /\ target_images_collection' =
                   InsertOne(target_images_collection, preload[p].image_doc,
                             ObjectId("Target_Images", nextId.Target_Images))
            /\ nextId' = [nextId EXCEPT !.Target_Images = @ + 1]
            /\ preload' = Advance(p, preload[p].i + 1)
       ELSE /\ preload' = PreloadError(p)
            /\ UNCHANGED <<target_images_collection, nextId>>
    /\ UNCHANGED <<source_images_collection, results_collection, now, swap,
                   read>>

----------------------------------------------------------------------------
(* Specifications *)

Init ==
    /\ source_images_collection = {}
    /\ target_images_collection = {}
    /\ results_collection = {}
    /\ nextId = [Source_Images |-> 1, Target_Images |-> 1, Results |-> 1]
    /\ now = 0
    /\ swap = [r \in SwapProcs |-> IdleSwap]
    /\ read = [op |-> "none", id |-> NoId, storeOk |-> TRUE, absent |-> FALSE,
               response |-> NoResponse]
    /\ preload = [p \in PreloadProcs |-> IdlePreload]

\* The ids a client may send: those of the collection, one of no document,
\* one that is no ObjectId.
IdInputs(coll) == Ids(coll) \cup {MissingId, BadId}

Next ==
    \/ Tick
    \/ \E file \in UploadFiles, storeOk \in BOOLEAN : UploadSource(file, storeOk)
    \/ \E file \in UploadFiles, storeOk \in BOOLEAN : UploadTarget(file, storeOk)
    \/ \E r \in SwapProcs, src \in IdInputs(source_images_collection),
          tgt \in IdInputs(target_images_collection), storeOk \in BOOLEAN :
          SubmitSwap(r, src, tgt, storeOk)
    \/ \E r \in SwapProcs, storeOk \in BOOLEAN : FindTarget(r, storeOk)
    \/ \E r \in SwapProcs, script \in Scripts : Invoke(r, script)
    \/ \E r \in SwapProcs, storeOk \in BOOLEAN : Persist(r, storeOk)

Spec == Init /\ [][Next]_vars

\* The same with clients that read results and target images back.
NextRead ==
    \/ Next
    \/ \E id \in IdInputs(results_collection), storeOk \in BOOLEAN :
          DownloadResult(id, storeOk)
    \/ \E id \in IdInputs(target_images_collection), storeOk \in BOOLEAN :
          GetTargetImage(id, storeOk)

SpecRead == Init /\ [][NextRead]_vars

\* The startup hook and the standalone script, run against one database.
NextPreload ==
    \/ Tick
    \/ \E p \in PreloadProcs : PreloadStart(p)
    \/ \E p \in PreloadProcs, storeOk \in BOOLEAN : PreloadFind(p, storeOk)
    \/ \E p \in PreloadProcs, storeOk \in BOOLEAN : PreloadInsert(p, storeOk)

SpecPreload == Init /\ [][NextPreload]_vars

----------------------------------------------------------------------------
(* Properties *)

Done(r) == swap[r].pc = "done"
\* Both ids resolved to stored images.
Accepted(r) == ~swap[r].source_doc.none /\ ~swap[r].target_doc.none
\* The adapter was called.
Invoked(r) == swap[r].attempts # << >>
Succeeded(r) == Done(r) /\ swap[r].response.status = 200
Failed(r) == Done(r) /\ swap[r].response.status # 200

C2_MissingInputIsNotFound ==
    \A r \in SwapProcs :
        Done(r) /\ swap[r].cause \in {"SourceMissing", "TargetMissing"} =>
            /\ swap[r].response.status = 404
            /\ swap[r].calls = 0

\* The first k answers of the script are transient failures and answer k + 1
\* is the swapped image.
FailsThenSucceeds(script, k) ==
    /\ \A i \in 1..k : script[i] \in Transient
    /\ script[k + 1] = "ok"

KindOf(cause) ==
    CASE cause \in {"SourceMissing", "TargetMissing", "InvalidId"}
           -> "InputNotFound"
      [] cause = "StoreRead" -> "StoreUnavailable"
      [] cause = "StoreWrite" -> "ResultPersistFailure"
      [] cause = "rejected" -> "ProviderRejected"
      [] cause = "unavailable" -> "ProviderUnavailable"
      [] cause = "timeout" -> "ProviderTimeout"
      [] OTHER -> "ProviderProtocolError"

\* C5 as claimed: two failed requests whose causes are of different kinds
\* get different responses, so the caller can tell the kinds apart.
C5_KindsAreDistinguishable ==
    \A r1, r2 \in SwapProcs :
        Failed(r1) /\ Failed(r2)
        /\ KindOf(swap[r1].cause) # KindOf(swap[r2].cause)
            => swap[r1].response # swap[r2].response

\* C8 as claimed: a request whose provider call ran into the deadline ends
\* as failed.
C8_TimeoutEndsFailed ==
    \A r \in SwapProcs :
        Done(r) /\ Invoked(r) /\ swap[r].attempts[1] = "timeout" => Failed(r)

\* C9: a step never removes or changes a recorded result, result ids stay
\* unique, and the step in which a request succeeds adds exactly one record,
\* under an id no record had, whatever pairs were swapped before.
C9_NoDedupNoMutation ==
    [][ /\ results_collection \subseteq results_collection'
        /\ \A d1, d2 \in results_collection' : d1._id = d2._id => d1 = d2
        /\ \A r \in SwapProcs :
             ~Succeeded(r) /\ Succeeded(r)' =>
                \E d \in results_collection' :
                    /\ d._id = swap'[r].response.result_id
                    /\ d._id \notin Ids(results_collection)
                    /\ d \notin results_collection
                    /\ results_collection' = results_collection \cup {d} ]_vars

\* C9: two results of the same (source, target) pair are on record.
C9_Witness ==
    \E d1, d2 \in results_collection :
        /\ d1._id # d2._id
        /\ d1.source_image_id = d2.source_image_id
        /\ d1.target_image_id = d2.target_image_id

\* C6 as claimed: downloading the result a successful request returned gives
\* the bytes the adapter returned for that request, as image/png.
C6_DownloadRoundTrip ==
    \A r \in SwapProcs :
        Succeeded(r) /\ read.op = "download_result" /\ read.storeOk
        /\ read.id = swap[r].response.result_id =>
            /\ read.response.status = 200
            /\ read.response.media_type = <<"image/png">>
            /\ ~swap[r].result_data.none
            /\ read.response.body = swap[r].result_data.val

\* C7 as claimed: reading a result or a target image under a well-formed id
\* that names no document, with the store up, gives the not-found outcome
\* (the 404 the handlers raise).
C7_AbsentIsNotFound ==
    read.op # "none" /\ read.absent /\ ObjectIdValid(read.id) /\ read.storeOk
        => read.response.status = 404

\* C10 as claimed: Target_Images never holds two documents for one file of
\* the Target_Images folder.
C10_OneDocumentPerFilename ==
    \A i \in 1..Len(TargetImagesDir) :
        Cardinality({d \in target_images_collection :
                        d.filename = TargetImagesDir[i]}) <= 1

====
